---- MODULE Spec2Model ----
(***************************************************************************)
(* Model of the document generation hub: the generate-document edge        *)
(* function (placeholder substitution and the request pipeline).           *)
(* Text is a sequence of one-character strings.                            *)
(***************************************************************************)
EXTENDS Integers, Sequences, FiniteSets, TLC

VARIABLES
    sBody,       \* substitution run: the decoded template text (textContent)
    sFileType,   \* substitution run: template.file_type
    sEntries,    \* substitution run: Object.entries(parameters), in iteration order
    sIdx,        \* substitution run: number of entries already processed
    sContent,    \* substitution run: modifiedContent, with the origin of every character
    sPhase,      \* substitution run: "loop", "done" or "threw"
    pc,                   \* per invocation of the serve handler: the await it stands at
    request,              \* per invocation: Authorization header, templateId, parameters
    local,                \* per invocation: user, template, generatedDoc, processedContent, signedUrl
    calls,                \* per invocation: the collaborator calls made so far, in order
    response,             \* per invocation: the Response returned, NoResponse before
    generated_documents,  \* metadata store: the rows of generated_documents, row i has id i
    generatedBucket,      \* object store: the objects of bucket 'generated-documents', by key
    cancelled,            \* per invocation: the caller disconnected while the handler was running
    selectedTemplate,  \* Dashboard: the id of the selected template, "" when none
    dashParameters,    \* Dashboard: parameters, the rows of the selected template by parameter_label
    formValues,        \* Dashboard: formValues, the text typed for each parameter_name
    generating,        \* Dashboard: the busy flag of handleGenerateDocument
    dashToast,         \* Dashboard: the last toast shown
    invoked,           \* Dashboard: the body last sent to generate-document, NoRequest before
    fetching,          \* Dashboard: the template ids of the fetchParameters calls in flight
    formParameters,     \* TemplateManagement: parameters, the list built in the form
    newParam,           \* TemplateManagement: the fields of the new parameter form
    showParameterForm,  \* TemplateManagement: the new parameter form is open
    formToast,          \* TemplateManagement: the last toast shown
    selectedFile,        \* TemplateManagement: the chosen File, NoFile when none
    templateName,        \* TemplateManagement: the text of the name field
    uploading,           \* TemplateManagement: the busy flag of handleSubmit
    submitPc,            \* handleSubmit: the await it stands at, "idle" when not running
    submitLocal,         \* handleSubmit: the state it captured, fileExt, fileName, template
    submitClock,         \* Date.now(), counted in runs of handleSubmit
    templatesBucket,     \* object store: the keys of bucket 'document-templates'
    document_templates,  \* metadata store: the rows inserted by the form, row i has id i
    template_parameters  \* metadata store: the parameter rows inserted by the form

----------------------------------------------------------------------------
(* Characters and text helpers *)

LB == "{"
RB == "}"
Open2 == <<LB, LB>>
Close2 == <<RB, RB>>

\* \s of the regular expressions, over the model's alphabet
IsWhitespace(c) == c = " "

\* String.prototype.trim: s without its leading and trailing whitespace
RECURSIVE TrimStart(_)
TrimStart(s) ==
    IF s # <<>> /\ IsWhitespace(Head(s)) THEN TrimStart(Tail(s)) ELSE s

RECURSIVE TrimEnd(_)
TrimEnd(s) ==
    IF s # <<>> /\ IsWhitespace(s[Len(s)]) THEN TrimEnd(SubSeq(s, 1, Len(s) - 1)) ELSE s

Trim(s) == TrimEnd(TrimStart(s))

\* p occurs in s starting at index i
StartsAt(s, i, p) ==
    /\ i >= 1
    /\ i + Len(p) - 1 <= Len(s)
    /\ \A j \in 1..Len(p) : s[i + j - 1] = p[j]

\* String.prototype.includes
Includes(s, p) == \E i \in 1..(Len(s) + 1) : StartsAt(s, i, p)

RECURSIVE SkipWhitespace(_, _)
\* index of the first character at or after i that \s* (greedy) does not consume
SkipWhitespace(s, i) ==
    IF i <= Len(s) /\ IsWhitespace(s[i]) THEN SkipWhitespace(s, i + 1) ELSE i

RECURSIVE FirstClose(_, _)
\* index of the first "}" at or after i, Len(s)+1 when there is none
FirstClose(s, i) ==
    IF i > Len(s) \/ s[i] = RB THEN i ELSE FirstClose(s, i + 1)

----------------------------------------------------------------------------
(* The regular expressions of the replacement loop.  A matcher gives the   *)
(* index of the last character of the match that starts at i, 0 for none.  *)

\* new RegExp throws a SyntaxError for a key holding an unbalanced "("
RegExpThrows(key) == \E j \in 1..Len(key) : key[j] = "("

\* the key, put into the pattern as written, matches at index i: a "." of the
\* key is the wildcard of the regular expression, every other character of
\* the keys in use stands for itself
KeyMatchesAt(s, i, key) ==
    /\ i >= 1
    /\ i + Len(key) - 1 <= Len(s)
    /\ \A j \in 1..Len(key) : key[j] = "." \/ s[i + j - 1] = key[j]

\* patterns[0]: \{\{\s*key\s*\}\}
MatchSpaced(s, i, key) ==
    IF ~StartsAt(s, i, Open2) THEN 0
    ELSE LET b == SkipWhitespace(s, i + 2) IN
         IF ~KeyMatchesAt(s, b, key) THEN 0
         ELSE LET d == SkipWhitespace(s, b + Len(key)) IN
              IF StartsAt(s, d, Close2) THEN d + 1 ELSE 0

\* patterns[1]: \{\{key\}\}
MatchExact(s, i, key) ==
    IF /\ StartsAt(s, i, Open2)
       /\ KeyMatchesAt(s, i + 2, key)
       /\ StartsAt(s, i + 2 + Len(key), Close2)
    THEN i + Len(key) + 3 ELSE 0

\* splitPattern: \{\{([^}]*key[^}]*)\}\}: the first [^}]* takes the longest
\* run after which the key matches and the rest of the pattern follows
MatchSplit(s, i, key) ==
    IF ~StartsAt(s, i, Open2) THEN 0
    ELSE LET j == FirstClose(s, i + 2)
             CloseAfter(x) == FirstClose(s, i + 2 + x + Len(key))
             xs == { x \in 0..(j - i - 2) :
                       /\ KeyMatchesAt(s, i + 2 + x, key)
                       /\ StartsAt(s, CloseAfter(x), Close2) }
         IN IF xs = {} THEN 0
            ELSE CloseAfter(CHOOSE x \in xs : \A y \in xs : y <= x) + 1

MatchEnd(kind, s, i, key) ==
    CASE kind = "spaced" -> MatchSpaced(s, i, key)
      [] kind = "exact"  -> MatchExact(s, i, key)
      [] kind = "split"  -> MatchSplit(s, i, key)

RECURSIVE GetSubstitution(_, _, _, _, _)
\* String.prototype.replace with a string replacement: $$, $&, $` and $' are
\* expanded; the patterns have no capture group, so $1.. stay as written
GetSubstitution(repl, p, str, i, e) ==
    IF p > Len(repl) THEN <<>>
    ELSE IF repl[p] = "$" /\ p < Len(repl) /\ repl[p + 1] \in {"$", "&", "`", "'"}
         THEN (CASE repl[p + 1] = "$" -> <<"$">>
                 [] repl[p + 1] = "&" -> SubSeq(str, i, e)
                 [] repl[p + 1] = "`" -> SubSeq(str, 1, i - 1)
                 [] repl[p + 1] = "'" -> SubSeq(str, e + 1, Len(str)))
              \o GetSubstitution(repl, p + 2, str, i, e)
         ELSE <<repl[p]>> \o GetSubstitution(repl, p + 1, str, i, e)

\* the text a match is replaced by: the string replacement of patterns[],
\* the callback's return value for splitPattern
Replacement(kind, key, val, str, i, e) ==
    IF kind = "split"
    THEN IF Includes(SubSeq(str, i, e), key) THEN val ELSE SubSeq(str, i, e)
    ELSE GetSubstitution(val, 1, str, i, e)

Zeros(n) == [j \in 1..n |-> 0]

RECURSIVE ReplaceFrom(_, _, _, _, _)
\* modifiedContent.replace(pattern, ...) with the g flag, scanning from i.
\* c.text is the string; c.orig gives, per character, its index in the
\* template text, 0 for a character inserted as (part of) a value.
\* hit: some match consumed an inserted character.
ReplaceFrom(c, i, kind, key, val) ==
    IF i > Len(c.text) THEN [text |-> <<>>, orig |-> <<>>, hit |-> FALSE]
    ELSE LET e == MatchEnd(kind, c.text, i, key) IN
         IF e = 0
         THEN LET r == ReplaceFrom(c, i + 1, kind, key, val) IN
              [text |-> <<c.text[i]>> \o r.text,
               orig |-> <<c.orig[i]>> \o r.orig,
               hit  |-> r.hit]
         ELSE LET ins == Replacement(kind, key, val, c.text, i, e)
                  r   == ReplaceFrom(c, e + 1, kind, key, val)
                  kept == kind = "split" /\ ~Includes(SubSeq(c.text, i, e), key) IN
              [text |-> ins \o r.text,
               orig |-> (IF kept THEN SubSeq(c.orig, i, e) ELSE Zeros(Len(ins))) \o r.orig,
               hit  |-> r.hit \/ (~kept /\ \E j \in i..e : c.orig[j] = 0)]

\* the heuristic applied whatever the file type
IsWordAnyType(fileType) == TRUE

IsWord(fileType) == fileType = "docx" \/ fileType = "doc"

\* one iteration of: for (const [key, value] of Object.entries(parameters))
ReplaceForKey(c, key, val, fileType) ==
    LET r1 == ReplaceFrom(c, 1, "spaced", key, val)
        r2 == ReplaceFrom(r1, 1, "exact", key, val)
        r3 == IF IsWord(fileType) THEN ReplaceFrom(r2, 1, "split", key, val)
              ELSE [r2 EXCEPT !.hit = FALSE]
    IN [text |-> r3.text, orig |-> r3.orig,
        hit |-> c.hit \/ r1.hit \/ r2.hit \/ r3.hit]

\* the text as decoded, every character at its own index
Fresh(s) == [text |-> s, orig |-> [j \in 1..Len(s) |-> j], hit |-> FALSE]

RECURSIVE SubstituteFrom(_, _, _, _)
\* the whole loop over entries k..Len(entries); threw when a RegExp cannot be built
SubstituteFrom(c, entries, k, fileType) ==
    IF k > Len(entries) THEN [threw |-> FALSE, c |-> c]
    ELSE IF RegExpThrows(entries[k][1]) THEN [threw |-> TRUE, c |-> c]
    ELSE SubstituteFrom(ReplaceForKey(c, entries[k][1], entries[k][2], fileType),
                        entries, k + 1, fileType)

Substitute(body, entries, fileType) == SubstituteFrom(Fresh(body), entries, 1, fileType)

----------------------------------------------------------------------------
(* Inputs of a substitution run *)

MaxParts == 2

Placeholder(name) == Open2 \o name \o Close2

KeyA == <<"a">>
KeyAB == <<"a", "b">>
Keys == {KeyA, KeyAB}

\* fragments a template text is put together from
BodyFragments ==
    { Placeholder(KeyA), Placeholder(<<" ">> \o KeyA \o <<" ">>), Placeholder(KeyAB),
      Open2, Close2, <<"x">>, <<"a">>, <<" ">> }

RECURSIVE Concat(_)
Concat(parts) == IF parts = <<>> THEN <<>> ELSE Head(parts) \o Concat(Tail(parts))

Bodies == UNION { { Concat(ps) : ps \in [1..n -> BodyFragments] } : n \in 0..MaxParts }

\* submitted values: plain text, empty, brace text, replacement patterns
Values ==
    { <<"X">>, <<>>, Placeholder(KeyAB), <<"x">> \o Placeholder(KeyA),
      <<"$", "&">>, Open2 }

\* Object.entries(parameters): distinct keys in any order, each with a value
EntrySeqs ==
    UNION { { e \in [1..n -> Keys \X Values] :
                \A i, j \in 1..n : i # j => e[i][1] # e[j][1] } : n \in 0..Cardinality(Keys) }

SubstFileTypes == {"docx", "xlsx"}

EntryKeys(entries) == { entries[i][1] : i \in 1..Len(entries) }

\* the rearrangements of a sequence
PermsOf(seq) ==
    { [i \in 1..Len(seq) |-> seq[f[i]]] :
        f \in { g \in [1..Len(seq) -> 1..Len(seq)] :
                  \A i, j \in 1..Len(seq) : i # j => g[i] # g[j] } }

----------------------------------------------------------------------------
(* Bytes and text: new TextDecoder('utf-8').decode / new TextEncoder().encode. *)
(* An ASCII byte is written as its character; "0xFF" is a byte that is not   *)
(* valid UTF-8, "U+FFFD" the replacement character.                          *)

BOM == <<"0xEF", "0xBB", "0xBF">>
ReplacementCharBytes == <<"0xEF", "0xBF", "0xBD">>

RECURSIVE DecodeFrom(_, _)
DecodeFrom(bytes, i) ==
    IF i > Len(bytes) THEN <<>>
    ELSE IF StartsAt(bytes, i, ReplacementCharBytes)
         THEN <<"U+FFFD">> \o DecodeFrom(bytes, i + 3)
    ELSE IF bytes[i] \in {"0xFF", "0xEF", "0xBB", "0xBF", "0xBD"}
         THEN <<"U+FFFD">> \o DecodeFrom(bytes, i + 1)
    ELSE <<bytes[i]>> \o DecodeFrom(bytes, i + 1)

\* a leading byte order mark is dropped, malformed bytes become U+FFFD
Decode(bytes) ==
    IF StartsAt(bytes, 1, BOM) THEN DecodeFrom(bytes, 4) ELSE DecodeFrom(bytes, 1)

RECURSIVE Encode(_)
Encode(text) ==
    IF text = <<>> THEN <<>>
    ELSE (IF Head(text) = "U+FFFD" THEN ReplacementCharBytes ELSE <<Head(text)>>)
         \o Encode(Tail(text))

----------------------------------------------------------------------------
(* The stores the handler reads: users, templates, their parameters, the   *)
(* template files                                                          *)

Users == {"u1", "u2"}
Invocations == {"r1", "r2"}

KeyParen == <<"(">>
KeyDot == <<".">>
PlainValue == <<"X">>
WhitespaceValue == <<" ">>
EmailValue == <<"a", "@", "b", ".", "a", "b">>

\* rows of document_templates
Templates ==
    [ t1 |-> [id |-> "t1", file_type |-> "docx", file_url |-> <<"u1", "t1.docx">>,
              created_by |-> "u1"],
      t2 |-> [id |-> "t2", file_type |-> "xlsx", file_url |-> <<"u2", "t2.xlsx">>,
              created_by |-> "u2"] ]

TemplateIds == DOMAIN Templates

\* rows of template_parameters, by template
TemplateParameters ==
    [ t1 |-> { [parameter_name |-> KeyA, parameter_label |-> "A",
                parameter_type |-> "email", is_required |-> TRUE],
               [parameter_name |-> KeyAB, parameter_label |-> "B",
                parameter_type |-> "number", is_required |-> TRUE] },
      t2 |-> { [parameter_name |-> KeyAB, parameter_label |-> "B",
                parameter_type |-> "email", is_required |-> FALSE] } ]

AllTemplateParameters == UNION { TemplateParameters[t] : t \in TemplateIds }

\* objects of bucket 'document-templates', by path
TemplateFiles ==
    [ p \in { Templates[t].file_url : t \in TemplateIds } |->
        IF p = Templates["t1"].file_url
        THEN Placeholder(KeyA) \o <<" ">> \o Placeholder(KeyAB)
        ELSE <<"0xFF">> \o Placeholder(KeyA) \o Placeholder(KeyAB) ]

\* storage policy "Authenticated users can view their templates":
\* auth.uid()::text = (storage.foldername(name))[1]
CanViewTemplateFile(uid, path) == Len(path) >= 1 /\ uid = path[1]

\* template.file_url.replace('document-templates/', '')
TemplatePath(file_url) ==
    IF Len(file_url) >= 1 /\ Head(file_url) = "document-templates"
    THEN Tail(file_url) ELSE file_url

----------------------------------------------------------------------------
(* Requests *)

NoValue == "undefined"

\* the Authorization header: absent, one the identity provider does not
\* resolve, or the token of a user
AuthHeaders == {NoValue, "bad"} \cup Users

\* the parameters of a request body, as Object.entries gives them
ParameterEntries ==
    { <<>>,
      <<<<KeyA, PlainValue>>, <<KeyAB, PlainValue>>>>,
      <<<<KeyA, EmailValue>>, <<KeyAB, PlainValue>>>>,
      <<<<KeyA, <<>>>>, <<KeyAB, PlainValue>>>>,
      <<<<KeyA, WhitespaceValue>>, <<KeyAB, PlainValue>>>>,
      <<<<KeyAB, PlainValue>>, <<KeyParen, PlainValue>>>>,
      <<<<KeyDot, PlainValue>>>> }

\* a request body without parameters
NoParameters == [given |-> FALSE, entries |-> <<>>]

Requests ==
    [ authHeader : AuthHeaders,
      templateId : {NoValue, "t9"} \cup TemplateIds,
      parameters : {NoParameters} \cup { [given |-> TRUE, entries |-> m] : m \in ParameterEntries } ]

\* parameters[name]: the value under the key, no value when the key is absent
Lookup(entries, name) == { entries[i][2] : i \in { j \in 1..Len(entries) : entries[j][1] = name } }

\* !parameters[name]: undefined and the empty string are falsy
Falsy(vals) == \A v \in vals : v = <<>>

NoRequest == [authHeader |-> NoValue, templateId |-> NoValue, parameters |-> NoParameters]
NoResponse == [status |-> 0]
NoKey == <<>>
NoTemplate == [id |-> NoValue, file_type |-> NoValue, file_url |-> <<>>, created_by |-> NoValue]
NoLocal == [user |-> NoValue, template |-> NoTemplate, generatedDoc |-> 0,
            processedContent |-> <<>>, fileName |-> NoKey,
            signedUrl |-> [signedUrl |-> NoKey]]

SignedUrlExpiry == 3600

----------------------------------------------------------------------------
(* The substitution run, one loop iteration per step *)

substVars == <<sBody, sFileType, sEntries, sIdx, sContent, sPhase>>
pipeVars == <<pc, request, local, calls, response, generated_documents, generatedBucket,
              cancelled>>
dashVars == <<selectedTemplate, dashParameters, formValues, generating, dashToast, invoked,
              fetching>>
submitVars == <<selectedFile, templateName, uploading, submitPc, submitLocal, submitClock,
                templatesBucket, document_templates, template_parameters>>
formVars == <<formParameters, newParam, showParameterForm, formToast, submitVars>>
vars == <<substVars, pipeVars, dashVars, formVars>>

\* no invocation of the handler has arrived
PipeIdle ==
    /\ pc = [r \in Invocations |-> "idle"]
    /\ request = [r \in Invocations |-> NoRequest]
    /\ local = [r \in Invocations |-> NoLocal]
    /\ calls = [r \in Invocations |-> <<>>]
    /\ response = [r \in Invocations |-> NoResponse]
    /\ generated_documents = <<>>
    /\ generatedBucket = <<>>
    /\ cancelled = [r \in Invocations |-> FALSE]

NoToast == <<>>

\* the Dashboard as mounted: no template selected, nothing typed, nothing sent
DashIdle ==
    /\ selectedTemplate = ""
    /\ dashParameters = <<>>
    /\ formValues = <<>>
    /\ generating = FALSE
    /\ dashToast = NoToast
    /\ invoked = NoRequest
    /\ fetching = {}

\* useState of newParam, and what addParameter resets it to
DefaultNewParam ==
    [parameter_name |-> <<>>, parameter_label |-> <<>>, parameter_type |-> "text",
     is_required |-> TRUE, default_value |-> <<>>]

\* useState of selectedFile
NoFile == [name |-> <<>>, type |-> "", size |-> 0]

NoSubmit == [file |-> NoFile, name |-> <<>>, parameters |-> <<>>, fileExt |-> "",
             fileName |-> NoKey, template |-> 0]

\* handleSubmit not running, no file chosen, the stores empty
SubmitIdle ==
    /\ selectedFile = NoFile
    /\ templateName = <<>>
    /\ uploading = FALSE
    /\ submitPc = "idle"
    /\ submitLocal = NoSubmit
    /\ submitClock = 0
    /\ templatesBucket = {}
    /\ document_templates = <<>>
    /\ template_parameters = {}

\* the template form as mounted: no parameter added, the new parameter form closed
FormIdle ==
    /\ formParameters = <<>>
    /\ newParam = DefaultNewParam
    /\ showParameterForm = FALSE
    /\ formToast = NoToast
    /\ SubmitIdle

SubstInit ==
    /\ sBody \in Bodies
    /\ sFileType \in SubstFileTypes
    /\ sEntries \in EntrySeqs
    /\ sIdx = 0
    /\ sContent = Fresh(sBody)
    /\ sPhase = "loop"
    /\ PipeIdle
    /\ DashIdle
    /\ FormIdle

\* one iteration of the for loop over Object.entries(parameters)
SubstStep ==
    /\ sPhase = "loop"
    /\ sIdx < Len(sEntries)
    /\ IF RegExpThrows(sEntries[sIdx + 1][1])
       THEN /\ sPhase' = "threw"
            /\ UNCHANGED <<sIdx, sContent>>
       ELSE /\ sContent' = ReplaceForKey(sContent, sEntries[sIdx + 1][1],
                                         sEntries[sIdx + 1][2], sFileType)
            /\ sIdx' = sIdx + 1
            /\ UNCHANGED sPhase
    /\ UNCHANGED <<sBody, sFileType, sEntries, pipeVars, dashVars, formVars>>

\* the loop is over: processedContent = new TextEncoder().encode(modifiedContent)
SubstEnd ==
    /\ sPhase = "loop"
    /\ sIdx = Len(sEntries)
    /\ sPhase' = "done"
    /\ UNCHANGED <<sBody, sFileType, sEntries, sIdx, sContent, pipeVars, dashVars, formVars>>

SubstNext == SubstStep \/ SubstEnd

SpecSubst == SubstInit /\ [][SubstNext]_vars

----------------------------------------------------------------------------
(* The serve handler, one action per await *)

\* the invocation made the collaborator call; error: the call returned an error
Called(r, name, error) ==
    calls' = [calls EXCEPT ![r] = Append(@, <<name, IF error THEN "error" ELSE "ok">>)]

\* the catch block without a status: the Response default, 200
ThrowWithoutStatus(r, message, detail) ==
    /\ pc' = [pc EXCEPT ![r] = "done"]
    /\ response' = [response EXCEPT ![r] = [status |-> 200, error |-> <<message, detail>>]]

\* the catch block: status 400 with { error: message }
Throw(r, message, detail) ==
    /\ pc' = [pc EXCEPT ![r] = "done"]
    /\ response' = [response EXCEPT ![r] = [status |-> 400, error |-> <<message, detail>>]]

Goto(r, label) ==
    /\ pc' = [pc EXCEPT ![r] = label]
    /\ UNCHANGED response

\* a request arrives; a request without Authorization header is rejected
Receive(r) ==
    /\ pc[r] = "idle"
    /\ \E q \in Requests :
          /\ request' = [request EXCEPT ![r] = q]
          /\ IF q.authHeader = NoValue
             THEN Throw(r, "No authorization header", "")
             ELSE Goto(r, "getUser")
    /\ UNCHANGED <<local, calls, generated_documents, generatedBucket, cancelled, substVars, dashVars, formVars>>

\* getUser without the check of its result
GetUserUnchecked(r) ==
    /\ pc[r] = "getUser"
    /\ Called(r, "auth.getUser", request[r].authHeader \notin Users)
    /\ local' = [local EXCEPT ![r].user = request[r].authHeader]
    /\ IF request[r].templateId = NoValue \/ ~request[r].parameters.given
       THEN Throw(r, "Missing required parameters", "")
       ELSE Goto(r, "selectTemplate")
    /\ UNCHANGED <<request, generated_documents, generatedBucket, cancelled, substVars, dashVars, formVars>>

\* await supabaseClient.auth.getUser(), then the request body is read
GetUser(r) ==
    /\ pc[r] = "getUser"
    /\ Called(r, "auth.getUser", request[r].authHeader \notin Users)
    /\ IF request[r].authHeader \notin Users
       THEN /\ Throw(r, "Unauthorized", "")
            /\ UNCHANGED local
       ELSE /\ local' = [local EXCEPT ![r].user = request[r].authHeader]
            /\ IF request[r].templateId = NoValue \/ ~request[r].parameters.given
               THEN Throw(r, "Missing required parameters", "")
               ELSE Goto(r, "selectTemplate")
    /\ UNCHANGED <<request, generated_documents, generatedBucket, cancelled, substVars, dashVars, formVars>>

\* await from('document_templates').select('*').eq('id', templateId).single()
SelectTemplate(r) ==
    /\ pc[r] = "selectTemplate"
    /\ \E templateError \in BOOLEAN :
          /\ request[r].templateId \notin TemplateIds => templateError
          /\ Called(r, "document_templates.select", templateError)
          /\ IF templateError
             THEN /\ Throw(r, "Template not found", "")
                  /\ UNCHANGED local
             ELSE /\ local' = [local EXCEPT ![r].template = Templates[request[r].templateId]]
                  /\ Goto(r, "selectParams")
    /\ UNCHANGED <<request, generated_documents, generatedBucket, cancelled, substVars, dashVars, formVars>>

\* the required parameters the request has no truthy value for
MissingRequired(templateParams, parameters) ==
    { p \in templateParams : p.is_required /\ Falsy(Lookup(parameters, p.parameter_name)) }

\* the select of the parameter rows without the required check after it
SelectParamsUnchecked(r) ==
    /\ pc[r] = "selectParams"
    /\ \E paramsError \in BOOLEAN :
          /\ Called(r, "template_parameters.select", paramsError)
          /\ IF paramsError
             THEN Throw(r, "Failed to fetch template parameters", "")
             ELSE Goto(r, "insert")
    /\ UNCHANGED <<request, local, generated_documents, generatedBucket, cancelled, substVars, dashVars, formVars>>

\* await from('template_parameters').select('*').eq('template_id', templateId),
\* then the required check; the rows come in no stated order, so the first
\* missing one is any of the missing ones
SelectParams(r) ==
    /\ pc[r] = "selectParams"
    /\ \E paramsError \in BOOLEAN :
          /\ Called(r, "template_parameters.select", paramsError)
          /\ IF paramsError
             THEN Throw(r, "Failed to fetch template parameters", "")
             ELSE LET missing == MissingRequired(TemplateParameters[request[r].templateId],
                                                 request[r].parameters.entries)
                  IN IF missing # {}
                     THEN \E p \in missing :
                             Throw(r, "Missing required parameter", p.parameter_label)
                     ELSE Goto(r, "insert")
    /\ UNCHANGED <<request, local, generated_documents, generatedBucket, cancelled, substVars, dashVars, formVars>>

\* await from('generated_documents').insert({...}).select().single()
InsertDoc(r) ==
    /\ pc[r] = "insert"
    /\ \E insertError \in BOOLEAN :
          /\ Called(r, "generated_documents.insert", insertError)
          /\ IF insertError
             THEN /\ Throw(r, "Failed to store document generation request", "")
                  /\ UNCHANGED <<local, generated_documents>>
             ELSE /\ generated_documents' =
                        Append(generated_documents,
                               [id |-> Len(generated_documents) + 1,
                                template_id |-> request[r].templateId,
                                user_id |-> local[r].user,
                                parameters |-> request[r].parameters.entries,
                                file_url |-> NoKey])
                  /\ local' = [local EXCEPT ![r].generatedDoc = Len(generated_documents) + 1]
                  /\ Goto(r, "download")
    /\ UNCHANGED <<request, generatedBucket, cancelled, substVars, dashVars, formVars>>

\* a file name made of the user and the file type only
FileNameWithoutId(l) == <<l.user, 0, l.template.file_type>>

\* fileName = `${user.id}/${generatedDoc.id}.${template.file_type}`
FileName(l) == <<l.user, l.generatedDoc, l.template.file_type>>

\* download without the check of its result: a failed download gives no bytes
DownloadUnchecked(r) ==
    /\ pc[r] = "download"
    /\ LET templatePath == TemplatePath(local[r].template.file_url) IN
       \E downloadError \in BOOLEAN :
          /\ (~CanViewTemplateFile(local[r].user, templatePath)
                 \/ templatePath \notin DOMAIN TemplateFiles) => downloadError
          /\ Called(r, "document-templates.download", downloadError)
          /\ LET bytes == IF downloadError THEN <<>> ELSE TemplateFiles[templatePath]
                 res == Substitute(Decode(bytes), request[r].parameters.entries,
                                   local[r].template.file_type)
             IN IF res.threw
                THEN /\ Throw(r, "Invalid regular expression", "")
                     /\ UNCHANGED local
                ELSE /\ local' = [local EXCEPT
                            ![r].processedContent = Encode(res.c.text),
                            ![r].fileName = FileName(local[r])]
                     /\ Goto(r, "upload")
    /\ UNCHANGED <<request, generated_documents, generatedBucket, cancelled, substVars, dashVars, formVars>>

\* await storage.from('document-templates').download(templatePath), then
\* decode, the replacement loop, encode
Download(r) ==
    /\ pc[r] = "download"
    /\ LET templatePath == TemplatePath(local[r].template.file_url) IN
       \E downloadError \in BOOLEAN :
          /\ (~CanViewTemplateFile(local[r].user, templatePath)
                 \/ templatePath \notin DOMAIN TemplateFiles) => downloadError
          /\ Called(r, "document-templates.download", downloadError)
          /\ IF downloadError
             THEN /\ Throw(r, "Failed to download template file", "")
                  /\ UNCHANGED local
             ELSE LET textContent == Decode(TemplateFiles[templatePath])
                      res == Substitute(textContent, request[r].parameters.entries,
                                        local[r].template.file_type)
                  IN IF res.threw
                     THEN /\ Throw(r, "Invalid regular expression", "")
                          /\ UNCHANGED local
                     ELSE /\ local' = [local EXCEPT
                                 ![r].processedContent = Encode(res.c.text),
                                 ![r].fileName = FileName(local[r])]
                          /\ Goto(r, "upload")
    /\ UNCHANGED <<request, generated_documents, generatedBucket, cancelled, substVars, dashVars, formVars>>

\* upload without the check of its result: a failed upload stores nothing
UploadUnchecked(r) ==
    /\ pc[r] = "upload"
    /\ \E uploadError \in BOOLEAN :
          /\ Called(r, "generated-documents.upload", uploadError)
          /\ generatedBucket' =
                 IF uploadError THEN generatedBucket
                 ELSE (local[r].fileName :> local[r].processedContent) @@ generatedBucket
          /\ Goto(r, "createSignedUrl")
    /\ UNCHANGED <<request, local, generated_documents, cancelled, substVars, dashVars, formVars>>

\* await storage.from('generated-documents').upload(fileName, processedContent, {upsert: true})
Upload(r) ==
    /\ pc[r] = "upload"
    /\ \E uploadError \in BOOLEAN :
          /\ Called(r, "generated-documents.upload", uploadError)
          /\ IF uploadError
             THEN /\ Throw(r, "Failed to upload processed document", "")
                  /\ UNCHANGED generatedBucket
             ELSE /\ generatedBucket' =
                        (local[r].fileName :> local[r].processedContent) @@ generatedBucket
                  /\ Goto(r, "createSignedUrl")
    /\ UNCHANGED <<request, local, generated_documents, cancelled, substVars, dashVars, formVars>>

\* await storage.from('generated-documents').createSignedUrl(fileName, 3600)
CreateSignedUrl(r) ==
    /\ pc[r] = "createSignedUrl"
    /\ \E signedUrlError \in BOOLEAN :
          /\ Called(r, "generated-documents.createSignedUrl", signedUrlError)
          /\ IF signedUrlError
             THEN /\ Throw(r, "Failed to generate download URL", "")
                  /\ UNCHANGED local
             ELSE /\ local' = [local EXCEPT ![r].signedUrl =
                                 [signedUrl |-> <<local[r].fileName, SignedUrlExpiry>>]]
                  /\ Goto(r, "update")
    /\ UNCHANGED <<request, generated_documents, generatedBucket, cancelled, substVars, dashVars, formVars>>

\* await from('generated_documents').update({file_url: fileName}).eq('id', id);
\* an update error is logged only; then the success response
UpdateDoc(r) ==
    /\ pc[r] = "update"
    /\ \E updateError \in BOOLEAN :
          /\ Called(r, "generated_documents.update", updateError)
          /\ generated_documents' =
                 IF updateError THEN generated_documents
                 ELSE [generated_documents EXCEPT
                          ![local[r].generatedDoc].file_url = local[r].fileName]
    /\ pc' = [pc EXCEPT ![r] = "done"]
    /\ response' = [response EXCEPT ![r] =
                       [status |-> 200, success |-> TRUE,
                        documentId |-> local[r].generatedDoc,
                        downloadUrl |-> local[r].signedUrl.signedUrl]]
    /\ UNCHANGED <<request, local, generatedBucket, cancelled, substVars, dashVars, formVars>>

\* the awaits on the object store: the template download, the result upload
\* and the signed URL request
SuspensionPoints == {"download", "upload", "createSignedUrl"}

\* the caller goes away while the handler stands at one of these awaits; the
\* handler never reads req.signal, so nothing of it changes
Disconnect(r) ==
    /\ pc[r] \in SuspensionPoints
    /\ ~cancelled[r]
    /\ cancelled' = [cancelled EXCEPT ![r] = TRUE]
    /\ UNCHANGED <<pc, request, local, calls, response, generated_documents, generatedBucket>>
    /\ UNCHANGED <<substVars, dashVars, formVars>>

\* no substitution run is being followed on its own
SubstIdle ==
    /\ sBody = <<>>
    /\ sFileType = "xlsx"
    /\ sEntries = <<>>
    /\ sIdx = 0
    /\ sContent = Fresh(<<>>)
    /\ sPhase = "off"

Init ==
    /\ PipeIdle
    /\ SubstIdle
    /\ DashIdle
    /\ FormIdle

Next ==
    \E r \in Invocations :
        \/ Receive(r)
        \/ GetUser(r)
        \/ SelectTemplate(r)
        \/ SelectParams(r)
        \/ InsertDoc(r)
        \/ Download(r)
        \/ Upload(r)
        \/ CreateSignedUrl(r)
        \/ UpdateDoc(r)
        \/ Disconnect(r)

Spec == Init /\ [][Next]_vars

----------------------------------------------------------------------------
(* Claims about the substitution run *)

\* the characters of the template text at i..i+n-1 stand, in order and
\* adjacent, in the current text
Intact(c, i, n) ==
    \E j \in 1..Len(c.text) :
        /\ j + n - 1 <= Len(c.text)
        /\ \A t \in 0..(n - 1) : c.orig[j + t] = i + t

Occurrences(s, p) == { i \in 1..Len(s) : StartsAt(s, i, p) }

\* C1: text inserted as the value of a placeholder is never matched and
\* replaced later in the same run, by the second pattern of the same key or
\* by a pattern of a later key.
C1_NoRecursiveSubstitution == ~sContent.hit

\* C2: the substituted text does not depend on the order in which the keys
\* of the value map are processed.
C2_OrderIndependent ==
    sPhase = "done" =>
        \A q \in PermsOf(sEntries) : Substitute(sBody, q, sFileType).c.text = sContent.text

\* C3: a body with exactly one occurrence of {{name}} and a value v for name
\* gives the body with that occurrence replaced by exactly v, every other
\* character unchanged.
C3_ExactlyTheValue ==
    (sPhase = "done" /\ Len(sEntries) = 1) =>
        LET name == sEntries[1][1]
            v    == sEntries[1][2]
            occ  == Occurrences(sBody, Placeholder(name))
        IN Cardinality(occ) = 1 =>
              \A i \in occ :
                  sContent.text = SubSeq(sBody, 1, i - 1) \o v
                                  \o SubSeq(sBody, i + Len(name) + 4, Len(sBody))

\* names a template text may hold a placeholder for
Names == Keys \cup {<<"x">>}

UnmappedUntouched ==
    \A p \in Names \ EntryKeys(sEntries) :
        \A i \in Occurrences(sBody, Placeholder(p)) :
            Intact(sContent, i, Len(p) + 4)

----------------------------------------------------------------------------
(* z.string().email() of the dashboard's validateParameters *)

Letters == {"a", "b", "x", "X"}
Alphanumerics == Letters \cup {"0", "1"}

\* ^(?!\.)(?!.*\.\.)([A-Z0-9_'+\-\.]*)[A-Z0-9_+-]@([A-Z0-9][A-Z0-9\-]*\.)+[A-Z]{2,}$ (i)
IsEmail(v) ==
    /\ Len(v) >= 1
    /\ v[1] # "."
    /\ ~Includes(v, <<".", ".">>)
    /\ \E k \in 1..Len(v) :
          /\ v[k] = "@"
          /\ k >= 2
          /\ \A j \in 1..(k - 1) : v[j] \in Alphanumerics \cup {"_", "'", "+", "-", "."}
          /\ v[k - 1] # "." /\ v[k - 1] # "'"
          /\ \E m \in (k + 2)..Len(v) :
                /\ v[m] = "."
                /\ Len(v) - m >= 2
                /\ \A j \in (m + 1)..Len(v) : v[j] \in Letters
                /\ v[k + 1] \in Alphanumerics
                /\ \A j \in (k + 1)..m : v[j] \in Alphanumerics \cup {"-", "."}
                /\ \A j \in (k + 1)..(m - 1) : v[j] = "." => v[j + 1] \in Alphanumerics

----------------------------------------------------------------------------
(* Number(value) of the dashboard's validateParameters *)

Digits == {"0", "1", "2", "3", "4", "5", "6", "7", "8", "9"}
HexDigits == Digits \cup {"a", "b", "c", "d", "e", "f", "A", "B", "C", "D", "E", "F"}
InfinityLiteral == <<"I", "n", "f", "i", "n", "i", "t", "y">>

IsDigits(s) == Len(s) >= 1 /\ \A i \in 1..Len(s) : s[i] \in Digits

\* DecimalDigits . DecimalDigits(opt), . DecimalDigits, or DecimalDigits
IsMantissa(s) ==
    \/ IsDigits(s)
    \/ \E k \in 1..Len(s) :
          /\ s[k] = "."
          /\ Len(s) >= 2
          /\ \A i \in 1..Len(s) : i # k => s[i] \in Digits

\* the part after e or E: an optionally signed run of digits
IsExponent(s) ==
    \/ IsDigits(s)
    \/ Len(s) >= 2 /\ s[1] \in {"+", "-"} /\ IsDigits(Tail(s))

\* StrUnsignedDecimalLiteral
IsUnsignedDecimal(s) ==
    \/ IsMantissa(s)
    \/ \E k \in 2..Len(s) :
          /\ s[k] \in {"e", "E"}
          /\ IsMantissa(SubSeq(s, 1, k - 1))
          /\ IsExponent(SubSeq(s, k + 1, Len(s)))

Unsigned(s) == IF s # <<>> /\ s[1] \in {"+", "-"} THEN Tail(s) ELSE s

\* NonDecimalIntegerLiteral: 0x, 0o and 0b literals, which take no sign
IsNonDecimalInteger(s) ==
    /\ Len(s) >= 3
    /\ s[1] = "0"
    /\ \/ s[2] \in {"x", "X"} /\ \A i \in 3..Len(s) : s[i] \in HexDigits
       \/ s[2] \in {"o", "O"} /\ \A i \in 3..Len(s) : s[i] \in {"0", "1", "2", "3", "4", "5", "6", "7"}
       \/ s[2] \in {"b", "B"} /\ \A i \in 3..Len(s) : s[i] \in {"0", "1"}

\* isNaN(Number(value)): the text is not a StringNumericLiteral; the empty
\* text converts to 0
NumberIsNaN(value) ==
    LET t == Trim(value)
    IN /\ t # <<>>
       /\ Unsigned(t) # InfinityLiteral
       /\ ~IsUnsignedDecimal(Unsigned(t))
       /\ ~IsNonDecimalInteger(t)

----------------------------------------------------------------------------
(* The Dashboard: template selection, the parameter form, generation *)

\* the collation order of the labels in use
Labels == <<"A", "B">>
LabelRank(label) == CHOOSE i \in 1..Len(Labels) : Labels[i] = label

\* .order("parameter_label") over a set of rows
OrderByLabel(rows) ==
    CHOOSE s \in [1..Cardinality(rows) -> rows] :
        /\ { s[i] : i \in 1..Cardinality(rows) } = rows
        /\ \A i, j \in 1..Cardinality(rows) :
              i < j => LabelRank(s[i].parameter_label) <= LabelRank(s[j].parameter_label)

\* what the user can type into a field of the parameter form
NumberValue == <<"1">>
FormTexts == {<<>>, WhitespaceValue, PlainValue, EmailValue, NumberValue, InfinityLiteral}

\* a valid floating-point number of HTML: what an input of type number keeps
IsValidFloatingPoint(s) ==
    LET u == IF s # <<>> /\ s[1] = "-" THEN Tail(s) ELSE s
        IsFraction(m) ==
            \/ IsDigits(m)
            \/ \E k \in 1..(Len(m) - 1) :
                  m[k] = "." /\ \A i \in 1..Len(m) : i # k => m[i] \in Digits
    IN \/ IsFraction(u)
       \/ \E k \in 2..Len(u) :
             /\ u[k] \in {"e", "E"}
             /\ IsFraction(SubSeq(u, 1, k - 1))
             /\ IsExponent(SubSeq(u, k + 1, Len(u)))

\* e.target.value of <Input type=...>: the value sanitization of the input
\* types number (not a number: empty) and email (whitespace stripped)
InputValue(type, text) ==
    CASE type = "number" -> IF IsValidFloatingPoint(text) THEN text ELSE <<>>
      [] type = "email" -> Trim(text)
      [] OTHER -> text

\* formValues[name], undefined when there is no such key
FormValue(values, name) ==
    IF \E i \in 1..Len(values) : values[i][1] = name
    THEN values[CHOOSE i \in 1..Len(values) : values[i][1] = name][2]
    ELSE NoValue

\* the body of the for loop of validateParameters, from the i-th required
\* parameter on: the toast of the first check that fails, NoToast when none does
RECURSIVE ValidateFrom(_, _, _)
ValidateFrom(requiredParams, values, i) ==
    IF i > Len(requiredParams) THEN NoToast
    ELSE LET param == requiredParams[i]
             raw == FormValue(values, param.parameter_name)
             value == IF raw = NoValue THEN <<>> ELSE Trim(raw)
         IN IF value = <<>>
            THEN <<"error", param.parameter_label, "is required">>
            ELSE IF param.parameter_type = "email" /\ ~IsEmail(value)
            THEN <<"error", param.parameter_label, "must be a valid email">>
            ELSE IF param.parameter_type = "number" /\ NumberIsNaN(value)
            THEN <<"error", param.parameter_label, "must be a number">>
            ELSE ValidateFrom(requiredParams, values, i + 1)

\* parameters.filter(p => p.is_required)
RequiredParams(params) == SelectSeq(params, LAMBDA p : p.is_required)

\* validateParameters: the toast it shows, NoToast when it returns true
ValidateParameters(params, values) == ValidateFrom(RequiredParams(params), values, 1)

\* onValueChange of the template Select, with the effect on selectedTemplate:
\* fetchParameters starts and is in flight
SetSelectedTemplate(t) ==
    /\ t # selectedTemplate
    /\ selectedTemplate' = t
    /\ fetching' = fetching \cup {t}
    /\ UNCHANGED <<dashParameters, formValues, generating, dashToast, invoked>>
    /\ UNCHANGED <<substVars, pipeVars, formVars>>

\* the select of fetchParameters(t) returns
FetchParametersReturns(t) ==
    /\ t \in fetching
    /\ fetching' = fetching \ {t}
    /\ \E error \in BOOLEAN :
          IF error
          THEN /\ dashToast' = <<"error", "", "Failed to load template parameters">>
               /\ UNCHANGED <<dashParameters, formValues>>
          ELSE LET params == OrderByLabel(TemplateParameters[t])
               IN /\ dashParameters' = params
                  /\ formValues' = [i \in 1..Len(params) |-> <<params[i].parameter_name, <<>>>>]
                  /\ UNCHANGED dashToast
    /\ UNCHANGED <<selectedTemplate, generating, invoked>>
    /\ UNCHANGED <<substVars, pipeVars, formVars>>

\* onChange of the input rendered for param, one of parameters
SetFormValue(param, text) ==
    /\ \E i \in 1..Len(dashParameters) : dashParameters[i] = param
    /\ LET name == param.parameter_name
           value == InputValue(param.parameter_type, text)
       IN formValues' =
             IF \E k \in 1..Len(formValues) : formValues[k][1] = name
             THEN [k \in 1..Len(formValues) |->
                     IF formValues[k][1] = name THEN <<name, value>> ELSE formValues[k]]
             ELSE Append(formValues, <<name, value>>)
    /\ UNCHANGED <<selectedTemplate, dashParameters, generating, dashToast, invoked, fetching>>
    /\ UNCHANGED <<substVars, pipeVars, formVars>>

\* handleGenerateDocument up to the await of functions.invoke; the button is
\* disabled while !selectedTemplate || generating
HandleGenerateDocument ==
    /\ selectedTemplate # ""
    /\ ~generating
    /\ LET toast == ValidateParameters(dashParameters, formValues)
       IN IF toast # NoToast
          THEN /\ dashToast' = toast
               /\ UNCHANGED <<generating, invoked>>
          ELSE /\ generating' = TRUE
               /\ invoked' = [authHeader |-> "u1", templateId |-> selectedTemplate,
                              parameters |-> [given |-> TRUE, entries |-> formValues]]
               /\ UNCHANGED dashToast
    /\ UNCHANGED <<selectedTemplate, dashParameters, formValues, fetching>>
    /\ UNCHANGED <<substVars, pipeVars, formVars>>

\* functions.invoke returns or throws; finally setGenerating(false)
InvokeReturns ==
    /\ generating
    /\ generating' = FALSE
    /\ \E outcome \in {"error", "downloadUrl", "noDownloadUrl"} :
          dashToast' = CASE outcome = "error" -> <<"error", "", "Failed to generate document">>
                         [] outcome = "downloadUrl" -> <<"success", "", "Document generated successfully!">>
                         [] OTHER -> dashToast
    /\ UNCHANGED <<selectedTemplate, dashParameters, formValues, invoked, fetching>>
    /\ UNCHANGED <<substVars, pipeVars, formVars>>

DashInit ==
    /\ DashIdle
    /\ SubstIdle
    /\ PipeIdle
    /\ FormIdle

DashNext ==
    \/ \E t \in TemplateIds : SetSelectedTemplate(t)
    \/ \E t \in TemplateIds : FetchParametersReturns(t)
    \/ \E param \in AllTemplateParameters, text \in FormTexts : SetFormValue(param, text)
    \/ HandleGenerateDocument
    \/ InvokeReturns

SpecDashboard == DashInit /\ [][DashNext]_vars

----------------------------------------------------------------------------
(* TemplateManagement: the parameter list of the template form *)

MaxFormParameters == 2

NameMaxLength == 100
LabelMaxLength == 200
DefaultValueMaxLength == 500

LowerCase ==
    { "a", "b", "c", "d", "e", "f", "g", "h", "i", "j", "k", "l", "m",
      "n", "o", "p", "q", "r", "s", "t", "u", "v", "w", "x", "y", "z" }
UpperCase ==
    { "A", "B", "C", "D", "E", "F", "G", "H", "I", "J", "K", "L", "M",
      "N", "O", "P", "Q", "R", "S", "T", "U", "V", "W", "X", "Y", "Z" }

\* /^[a-zA-Z0-9_]+$/
MatchesNamePattern(s) ==
    /\ Len(s) >= 1
    /\ \A i \in 1..Len(s) : s[i] \in LowerCase \cup UpperCase \cup Digits \cup {"_"}

ParameterTypes == {"text", "number", "email", "date", "textarea"}

\* parameterSchema.parse(param) does not throw; every string check follows a
\* .trim() and so sees the trimmed text
ParameterSchemaAccepts(param) ==
    /\ Len(Trim(param.parameter_name)) >= 1
    /\ Len(Trim(param.parameter_name)) <= NameMaxLength
    /\ MatchesNamePattern(Trim(param.parameter_name))
    /\ Len(Trim(param.parameter_label)) >= 1
    /\ Len(Trim(param.parameter_label)) <= LabelMaxLength
    /\ param.parameter_type \in ParameterTypes
    /\ param.is_required \in BOOLEAN
    /\ Len(Trim(param.default_value)) <= DefaultValueMaxLength

\* what the user can type into the fields of the new parameter form
NameTexts == {<<>>, KeyA, <<" ", "a">>, KeyAB, <<"a", "-">>}
LabelTexts == {<<>>, <<"A">>}
TypeChoices == {"text", "email"}
DefaultTexts == {<<>>, PlainValue}

\* the button "Add Parameter" of the section: opens or closes the form
ToggleParameterForm ==
    /\ showParameterForm' = ~showParameterForm
    /\ UNCHANGED <<formParameters, newParam, formToast>>
    /\ UNCHANGED <<substVars, pipeVars, dashVars, submitVars>>

\* onChange of the fields of the new parameter form
SetParameterName(text) ==
    /\ showParameterForm
    /\ newParam' = [newParam EXCEPT !.parameter_name = text]
    /\ UNCHANGED <<formParameters, showParameterForm, formToast>>
    /\ UNCHANGED <<substVars, pipeVars, dashVars, submitVars>>

SetParameterLabel(text) ==
    /\ showParameterForm
    /\ newParam' = [newParam EXCEPT !.parameter_label = text]
    /\ UNCHANGED <<formParameters, showParameterForm, formToast>>
    /\ UNCHANGED <<substVars, pipeVars, dashVars, submitVars>>

SetParameterType(type) ==
    /\ showParameterForm
    /\ newParam' = [newParam EXCEPT !.parameter_type = type]
    /\ UNCHANGED <<formParameters, showParameterForm, formToast>>
    /\ UNCHANGED <<substVars, pipeVars, dashVars, submitVars>>

SetIsRequired(checked) ==
    /\ showParameterForm
    /\ newParam' = [newParam EXCEPT !.is_required = checked]
    /\ UNCHANGED <<formParameters, showParameterForm, formToast>>
    /\ UNCHANGED <<substVars, pipeVars, dashVars, submitVars>>

SetDefaultValue(text) ==
    /\ showParameterForm
    /\ newParam' = [newParam EXCEPT !.default_value = text]
    /\ UNCHANGED <<formParameters, showParameterForm, formToast>>
    /\ UNCHANGED <<substVars, pipeVars, dashVars, submitVars>>

\* addParameter without the check for a duplicate name
AddParameterUnchecked ==
    /\ showParameterForm
    /\ Len(formParameters) < MaxFormParameters
    /\ IF ~ParameterSchemaAccepts(newParam)
       THEN /\ formToast' = <<"Validation Error", "">>
            /\ UNCHANGED <<formParameters, newParam, showParameterForm>>
       ELSE /\ formParameters' = Append(formParameters, newParam)
            /\ newParam' = DefaultNewParam
            /\ showParameterForm' = FALSE
            /\ formToast' = <<"Success", "Parameter added successfully">>
    /\ UNCHANGED <<substVars, pipeVars, dashVars, submitVars>>

\* addParameter: parse, duplicate check, append of newParam as typed
AddParameter ==
    /\ showParameterForm
    /\ Len(formParameters) < MaxFormParameters
    /\ IF ~ParameterSchemaAccepts(newParam)
       THEN /\ formToast' = <<"Validation Error", "">>
            /\ UNCHANGED <<formParameters, newParam, showParameterForm>>
       ELSE IF \E i \in 1..Len(formParameters) :
                  formParameters[i].parameter_name = newParam.parameter_name
       THEN /\ formToast' = <<"Error", "Parameter name already exists">>
            /\ UNCHANGED <<formParameters, newParam, showParameterForm>>
       ELSE /\ formParameters' = Append(formParameters, newParam)
            /\ newParam' = DefaultNewParam
            /\ showParameterForm' = FALSE
            /\ formToast' = <<"Success", "Parameter added successfully">>
    /\ UNCHANGED <<substVars, pipeVars, dashVars, submitVars>>

\* removeParameter(index): parameters.filter((_, i) => i !== index)
RemoveParameter(index) ==
    /\ index \in 1..Len(formParameters)
    /\ formParameters' = [i \in 1..(Len(formParameters) - 1) |->
                             IF i < index THEN formParameters[i] ELSE formParameters[i + 1]]
    /\ UNCHANGED <<newParam, showParameterForm, formToast>>
    /\ UNCHANGED <<substVars, pipeVars, dashVars, submitVars>>

FormInit ==
    /\ FormIdle
    /\ SubstIdle
    /\ PipeIdle
    /\ DashIdle

FormNext ==
    \/ ToggleParameterForm
    \/ \E text \in NameTexts : SetParameterName(text)
    \/ \E text \in LabelTexts : SetParameterLabel(text)
    \/ \E type \in TypeChoices : SetParameterType(type)
    \/ \E checked \in BOOLEAN : SetIsRequired(checked)
    \/ \E text \in DefaultTexts : SetDefaultValue(text)
    \/ AddParameter
    \/ \E index \in 1..MaxFormParameters : RemoveParameter(index)

SpecForm == FormInit /\ [][FormNext]_vars

----------------------------------------------------------------------------
(* TemplateManagement: handleSubmit, one step per await *)

MaxSubmits == 2

TemplateNameMaxLength == 200
MaxFileSize == 10 * 1024 * 1024

DocxMime == "application/vnd.openxmlformats-officedocument.wordprocessingml.document"
DocMime == "application/msword"
XlsxMime == "application/vnd.openxmlformats-officedocument.spreadsheetml.sheet"
XlsMime == "application/vnd.ms-excel"
PdfMime == "application/pdf"

\* the list of templateSchema's refine on file.type
TemplateSchemaMimeTypes == {DocxMime, DocMime, XlsxMime, XlsMime}

\* allowed_mime_types of the two buckets
TemplatesBucketMimeTypes == {DocxMime, XlsxMime, DocMime, XlsMime}
GeneratedBucketMimeTypes == {PdfMime}

\* the files the user can choose: name as name.split('.') gives it, the type
\* the browser reports for it, the size in bytes
Files ==
    { [name |-> <<"letter", "docx">>, type |-> DocxMime, size |-> 1],
      [name |-> <<"letter", "DOC">>, type |-> DocMime, size |-> 1],
      [name |-> <<"sheet", "xlsx">>, type |-> XlsxMime, size |-> 1],
      [name |-> <<"sheet", "v2", "XLS">>, type |-> XlsMime, size |-> 1],
      [name |-> <<"letter", "pdf">>, type |-> PdfMime, size |-> 1],
      [name |-> <<"big", "docx">>, type |-> DocxMime, size |-> MaxFileSize + 1] }

\* String.prototype.toLowerCase on the name segments above
ToLowerCase(str) ==
    CASE str = "DOC" -> "doc"
      [] str = "XLS" -> "xls"
      [] OTHER -> str

\* selectedFile.name.split('.').pop()?.toLowerCase() || ''
FileExt(file) ==
    IF Len(file.name) = 0 THEN "" ELSE ToLowerCase(file.name[Len(file.name)])

\* templateSchema.parse({name, description, file}) does not throw
TemplateSchemaAccepts(name, file) ==
    /\ Len(Trim(name)) >= 1
    /\ Len(Trim(name)) <= TemplateNameMaxLength
    /\ file.type \in TemplateSchemaMimeTypes
    /\ file.size <= MaxFileSize

\* the user signed in on the page (checkUser)
FormUser == "u1"

TemplateNames == {<<"T">>, <<" ">>}

\* parameter lists that addParameter builds
ParamA ==
    [parameter_name |-> KeyA, parameter_label |-> <<"A">>, parameter_type |-> "text",
     is_required |-> TRUE, default_value |-> <<>>]
ParamAB ==
    [parameter_name |-> KeyAB, parameter_label |-> <<"A">>, parameter_type |-> "email",
     is_required |-> FALSE, default_value |-> PlainValue]
ParameterLists == {<<>>, <<ParamA>>, <<ParamA, ParamAB>>}

\* what a remote call can end with: data, an error in the result, a rejection
RemoteOutcomes == {"ok", "error", "throws"}

\* the catch block of handleSubmit without the finally block after it
SubmitFailedWithoutFinally(description) ==
    /\ formToast' = <<"Error", description>>
    /\ submitPc' = "idle"
    /\ submitLocal' = NoSubmit
    /\ UNCHANGED uploading

\* the catch block and the finally block of handleSubmit
SubmitFailed(description) ==
    /\ formToast' = <<"Error", description>>
    /\ uploading' = FALSE
    /\ submitPc' = "idle"
    /\ submitLocal' = NoSubmit

\* onChange of the name field
SetTemplateName(text) ==
    /\ templateName' = text
    /\ UNCHANGED <<formParameters, newParam, showParameterForm, formToast>>
    /\ UNCHANGED <<selectedFile, uploading, submitPc, submitLocal, submitClock,
                   templatesBucket, document_templates, template_parameters>>
    /\ UNCHANGED <<substVars, pipeVars, dashVars>>

\* handleFileChange
HandleFileChange(file) ==
    /\ selectedFile' = file
    /\ UNCHANGED <<formParameters, newParam, showParameterForm, formToast>>
    /\ UNCHANGED <<templateName, uploading, submitPc, submitLocal, submitClock,
                   templatesBucket, document_templates, template_parameters>>
    /\ UNCHANGED <<substVars, pipeVars, dashVars>>

\* the submit button is enabled and the required fields are filled
CanSubmit ==
    /\ ~uploading
    /\ selectedFile # NoFile
    /\ Len(formParameters) > 0
    /\ Len(templateName) > 0

\* handleSubmit up to the first await: the guards, templateSchema.parse,
\* setUploading(true), fileExt and fileName, the upload request
HandleSubmit ==
    /\ CanSubmit
    /\ submitPc = "idle"
    /\ submitClock < MaxSubmits
    /\ submitClock' = submitClock + 1
    /\ IF ~TemplateSchemaAccepts(templateName, selectedFile)
       THEN /\ SubmitFailed("Validation Error")
       ELSE IF Len(formParameters) = 0
       THEN /\ SubmitFailed("Please add at least one parameter")
       ELSE /\ uploading' = TRUE
            /\ submitPc' = "upload"
            /\ submitLocal' = [file |-> selectedFile, name |-> templateName,
                               parameters |-> formParameters,
                               fileExt |-> FileExt(selectedFile),
                               fileName |-> <<FormUser, submitClock', FileExt(selectedFile)>>,
                               template |-> 0]
            /\ UNCHANGED formToast
    /\ UNCHANGED <<formParameters, newParam, showParameterForm, selectedFile, templateName,
                   templatesBucket, document_templates, template_parameters>>
    /\ UNCHANGED <<substVars, pipeVars, dashVars>>

\* storage.from('document-templates').upload(fileName, selectedFile, {upsert: false}) returns
UploadTemplateReturns(outcome) ==
    /\ submitPc = "upload"
    /\ IF outcome = "ok" /\ submitLocal.fileName \notin templatesBucket
       THEN /\ templatesBucket' = templatesBucket \cup {submitLocal.fileName}
            /\ submitPc' = "insertTemplate"
            /\ UNCHANGED <<formToast, uploading, submitLocal>>
       ELSE /\ SubmitFailed(outcome)
            /\ UNCHANGED templatesBucket
    /\ UNCHANGED <<formParameters, newParam, showParameterForm, selectedFile, templateName,
                   submitClock, document_templates, template_parameters>>
    /\ UNCHANGED <<substVars, pipeVars, dashVars>>

\* from('document_templates').insert({...}).select().single() returns
InsertTemplateReturns(outcome) ==
    /\ submitPc = "insertTemplate"
    /\ IF outcome = "ok"
       THEN /\ document_templates' =
                   Append(document_templates,
                          [id |-> Len(document_templates) + 1,
                           name |-> submitLocal.name,
                           file_type |-> submitLocal.fileExt,
                           file_url |-> submitLocal.fileName,
                           created_by |-> FormUser])
            /\ submitLocal' = [submitLocal EXCEPT !.template = Len(document_templates) + 1]
            /\ submitPc' = "insertParameters"
            /\ UNCHANGED <<formToast, uploading>>
       ELSE /\ SubmitFailed(outcome)
            /\ UNCHANGED document_templates
    /\ UNCHANGED <<formParameters, newParam, showParameterForm, selectedFile, templateName,
                   submitClock, templatesBucket, template_parameters>>
    /\ UNCHANGED <<substVars, pipeVars, dashVars>>

\* from('template_parameters').insert(parameters.map(...)) returns; on success
\* the toast, the reset of the form, navigate and the finally block
InsertParametersReturns(outcome) ==
    /\ submitPc = "insertParameters"
    /\ IF outcome = "ok"
       THEN /\ template_parameters' =
                   template_parameters \cup
                       { [template_id |-> submitLocal.template,
                          parameter_name |-> submitLocal.parameters[i].parameter_name,
                          parameter_type |-> submitLocal.parameters[i].parameter_type,
                          is_required |-> submitLocal.parameters[i].is_required]
                         : i \in 1..Len(submitLocal.parameters) }
            /\ formToast' = <<"Success", "Template uploaded successfully">>
            /\ templateName' = <<>>
            /\ selectedFile' = NoFile
            /\ formParameters' = <<>>
            /\ uploading' = FALSE
            /\ submitPc' = "idle"
            /\ submitLocal' = NoSubmit
       ELSE /\ SubmitFailed(outcome)
            /\ UNCHANGED <<template_parameters, templateName, selectedFile, formParameters>>
    /\ UNCHANGED <<newParam, showParameterForm, submitClock, templatesBucket,
                   document_templates>>
    /\ UNCHANGED <<substVars, pipeVars, dashVars>>

SubmitInit ==
    /\ formParameters \in ParameterLists
    /\ newParam = DefaultNewParam
    /\ showParameterForm = FALSE
    /\ formToast = NoToast
    /\ SubmitIdle
    /\ SubstIdle
    /\ PipeIdle
    /\ DashIdle

SubmitNext ==
    \/ \E text \in TemplateNames : SetTemplateName(text)
    \/ \E file \in Files : HandleFileChange(file)
    \/ HandleSubmit
    \/ \E outcome \in RemoteOutcomes : UploadTemplateReturns(outcome)
    \/ \E outcome \in RemoteOutcomes : InsertTemplateReturns(outcome)
    \/ \E outcome \in RemoteOutcomes : InsertParametersReturns(outcome)

SpecSubmit == SubmitInit /\ [][SubmitNext]_vars

----------------------------------------------------------------------------
(* Dashboard and TemplateManagement together, every remote call answered *)

\* the inputs of the two pages in this specification
BusyTemplateIds == {"t2"}
BusyTemplateNames == {<<"T">>}
BusyFiles == { file \in Files : file.name \in {<<"letter", "docx">>, <<"letter", "pdf">>} }

BusyNext ==
    \/ \E t \in BusyTemplateIds : SetSelectedTemplate(t)
    \/ \E t \in BusyTemplateIds : FetchParametersReturns(t)
    \/ HandleGenerateDocument
    \/ InvokeReturns
    \/ \E text \in BusyTemplateNames : SetTemplateName(text)
    \/ \E file \in BusyFiles : HandleFileChange(file)
    \/ HandleSubmit
    \/ \E outcome \in RemoteOutcomes : UploadTemplateReturns(outcome)
    \/ \E outcome \in RemoteOutcomes : InsertTemplateReturns(outcome)
    \/ \E outcome \in RemoteOutcomes : InsertParametersReturns(outcome)

\* a promise of the client settles: every remote call awaited returns a
\* result or rejects
SpecBusy ==
    /\ SubmitInit
    /\ [][BusyNext]_vars
    /\ WF_vars(InvokeReturns)
    /\ WF_vars(\E outcome \in RemoteOutcomes : UploadTemplateReturns(outcome))
    /\ WF_vars(\E outcome \in RemoteOutcomes : InsertTemplateReturns(outcome))
    /\ WF_vars(\E outcome \in RemoteOutcomes : InsertParametersReturns(outcome))

----------------------------------------------------------------------------
(* Claims about the serve handler *)

CallNames(r) == { calls[r][i][1] : i \in 1..Len(calls[r]) }
CallFailed(r, name) == \E i \in 1..Len(calls[r]) : calls[r][i] = <<name, "error">>
CallOk(r, name) == \E i \in 1..Len(calls[r]) : calls[r][i] = <<name, "ok">>

ObjectStoreCalls ==
    { "document-templates.download", "generated-documents.upload",
      "generated-documents.createSignedUrl" }
MetadataStoreCalls ==
    { "document_templates.select", "template_parameters.select",
      "generated_documents.insert", "generated_documents.update" }

DeclaredNames(templateId) == { p.parameter_name : p \in TemplateParameters[templateId] }

\* the entries whose key is a declared parameter of the template
DeclaredEntries(templateId, entries) ==
    LET IsDeclared(e) == e[1] \in DeclaredNames(templateId)
    IN SelectSeq(entries, IsDeclared)

\* C5: keys of the submitted value map that are not declared parameters of
\* the template change no text of the body (the processed content is what the
\* declared entries alone give) and never make the generation fail.
C5_UndeclaredKeysIgnored ==
    \A r \in Invocations :
        /\ local[r].fileName # NoKey =>
              local[r].processedContent =
                  Encode(Substitute(
                      Decode(TemplateFiles[TemplatePath(local[r].template.file_url)]),
                      DeclaredEntries(request[r].templateId, request[r].parameters.entries),
                      local[r].template.file_type).c.text)
        /\ response[r].status = 400 => response[r].error[1] # "Invalid regular expression"

\* C6: when parameter validation fails, the run ends failed and a row of
\* generated_documents exists for that request, without a result key.
C6_ValidationFailureIsRecorded ==
    \A r \in Invocations :
        (response[r].status = 400 /\ response[r].error[1] = "Missing required parameter") =>
            /\ local[r].generatedDoc \in 1..Len(generated_documents)
            /\ generated_documents[local[r].generatedDoc].file_url = NoKey

\* C7: whenever the success response is returned, its downloadUrl is the
\* 3600-second signed URL of the uploaded result and the row of the request
\* carries the result key.
C7_SuccessCarriesResultKey ==
    \A r \in Invocations :
        response[r].status = 200 =>
            /\ local[r].fileName \in DOMAIN generatedBucket
            /\ response[r].downloadUrl = <<local[r].fileName, 3600>>
            /\ generated_documents[response[r].documentId].file_url = local[r].fileName

\* C8: when the download of the template file fails, the run ends failed, no
\* upload and no signed-URL call is made, and the row of the request has no
\* result key.
C8_DownloadFailureLeavesNoResult ==
    \A r \in Invocations :
        CallFailed(r, "document-templates.download") =>
            /\ pc[r] = "done"
            /\ response[r].status = 400
            /\ CallNames(r) \cap {"generated-documents.upload",
                                  "generated-documents.createSignedUrl",
                                  "generated_documents.update"} = {}
            /\ local[r].generatedDoc \in 1..Len(generated_documents)
            /\ generated_documents[local[r].generatedDoc].file_url = NoKey
            /\ \A k \in DOMAIN generatedBucket : k[2] # local[r].generatedDoc

\* a run that ended at the failed download, its row being in the store
C8_Witness ==
    \E r \in Invocations :
        /\ CallFailed(r, "document-templates.download")
        /\ response[r].status = 400
        /\ response[r].error[1] = "Failed to download template file"
        /\ local[r].generatedDoc \in 1..Len(generated_documents)

\* C9: a request without an authenticated principal is rejected before any
\* metadata-store or object-store call is made.
C9_UnauthorizedBeforeCollaborators ==
    \A r \in Invocations :
        (pc[r] # "idle" /\ request[r].authHeader \notin Users) =>
            /\ CallNames(r) \cap (ObjectStoreCalls \cup MetadataStoreCalls) = {}
            /\ pc[r] \in {"getUser", "done"}
            /\ pc[r] = "done" => response[r].status = 400
            /\ local[r].generatedDoc = 0

\* a request whose header the identity provider did not resolve was rejected
C9_Witness ==
    \E r \in Invocations :
        /\ request[r].authHeader = "bad"
        /\ pc[r] = "done"
        /\ response[r].status = 400
        /\ calls[r] = <<<<"auth.getUser", "error">>>>

\* the request gives a required parameter of type email a value that is
\* not an email
HasInvalidRequiredEmail(r) ==
    /\ request[r].templateId \in TemplateIds
    /\ request[r].parameters.given
    /\ \E p \in TemplateParameters[request[r].templateId] :
          /\ p.is_required
          /\ p.parameter_type = "email"
          /\ \E v \in Lookup(request[r].parameters.entries, p.parameter_name) :
                v # <<>> /\ ~IsEmail(v)

\* C10: for a required parameter of type email whose value is not a valid
\* email the generation is rejected and no object-store call occurs.
C10_InvalidEmailRejected ==
    \A r \in Invocations :
        HasInvalidRequiredEmail(r) =>
            /\ CallNames(r) \cap ObjectStoreCalls = {}
            /\ response[r].status # 200

----------------------------------------------------------------------------
(* Claims about validation *)

\* the request reached the required check of a template that declares a
\* required parameter for which it gives no value, or only whitespace
HasBlankRequired(r) ==
    /\ request[r].templateId \in TemplateIds
    /\ request[r].parameters.given
    /\ CallOk(r, "template_parameters.select")
    /\ \E p \in TemplateParameters[request[r].templateId] :
          /\ p.is_required
          /\ \A v \in Lookup(request[r].parameters.entries, p.parameter_name) :
                Trim(v) = <<>>

\* C11: a required parameter fails validation as missing unless its value is
\* non-empty after trimming, in the server-side check as on the dashboard: a
\* request with a whitespace-only required value is rejected and not recorded.
C11_BlankRequiredRejected ==
    \A r \in Invocations :
        HasBlankRequired(r) =>
            /\ pc[r] = "done"
            /\ response[r].status = 400
            /\ response[r].error[1] = "Missing required parameter"

\* every parameter of type email or number that has a value has one of its format
FormatsValid(params, values) ==
    \A i \in 1..Len(params) :
        LET raw == FormValue(values, params[i].parameter_name)
            value == IF raw = NoValue THEN <<>> ELSE Trim(raw)
        IN value # <<>> =>
              /\ params[i].parameter_type = "email" => IsEmail(value)
              /\ params[i].parameter_type = "number" => IsUnsignedDecimal(Unsigned(value))

\* C12: the format checks apply to every parameter of type email or number
\* whose value is present, required or not: the dashboard sends a generation
\* request only when every such value is a valid email or a finite decimal number.
C12_FormatCheckedWheneverPresent ==
    [][(~generating /\ generating') => FormatsValid(dashParameters, formValues)]_vars

\* C13: validation reports one error, that of the first failing parameter in
\* label order, the same in the server-side check as on the dashboard: the
\* parameter the handler reports as missing is the one validateParameters
\* reports for the same schema and values.
C13_FirstFailingInLabelOrder ==
    \A r \in Invocations :
        (/\ pc[r] = "done"
         /\ response[r].status = 400
         /\ response[r].error[1] = "Missing required parameter") =>
            LET toast == ValidateParameters(
                            OrderByLabel(TemplateParameters[request[r].templateId]),
                            request[r].parameters.entries)
            IN /\ toast # NoToast
               /\ toast[2] = response[r].error[2]

----------------------------------------------------------------------------
(* Claims about the stages of the pipeline *)

\* the number of times the invocation made the collaborator call
CallCount(r, name) == Cardinality({ i \in 1..Len(calls[r]) : calls[r][i][1] = name })

\* the row the invocation inserted has its result key set
ResultKeySet(r) ==
    /\ local[r].generatedDoc # 0
    /\ generated_documents[local[r].generatedDoc].file_url # NoKey

\* C14: the result key is set at most once per invocation and only after the
\* result bytes were uploaded successfully under that key; a request that
\* ended in failure never has its result key set.
C14_ResultKeyOnlyAfterUpload ==
    /\ \A r \in Invocations :
          /\ CallCount(r, "generated_documents.update") <= 1
          /\ ResultKeySet(r) =>
                /\ generated_documents[local[r].generatedDoc].file_url = local[r].fileName
                /\ local[r].fileName \in DOMAIN generatedBucket
                /\ CallOk(r, "generated-documents.upload")
                /\ response[r].status = 200
    /\ \A i \in 1..Len(generated_documents) :
          generated_documents[i].file_url # NoKey =>
              \E r \in Invocations : local[r].generatedDoc = i

\* an invocation uploaded its result and then recorded the key on its row
C14_Witness ==
    \E r \in Invocations :
        /\ ResultKeySet(r)
        /\ calls[r][Len(calls[r])] = <<"generated_documents.update", "ok">>
        /\ generatedBucket[local[r].fileName] = local[r].processedContent

\* the collaborator calls of the handler, in the order of its text
StageOrder ==
    << "auth.getUser", "document_templates.select", "template_parameters.select",
       "generated_documents.insert", "document-templates.download",
       "generated-documents.upload", "generated-documents.createSignedUrl",
       "generated_documents.update" >>

FailedOutcome(r) ==
    \/ request[r].authHeader = NoValue
    \/ request[r].templateId = NoValue
    \/ ~request[r].parameters.given
    \/ \E name \in CallNames(r) \ {"generated_documents.update"} : CallFailed(r, name)
    \/ /\ CallOk(r, "template_parameters.select")
       /\ MissingRequired(TemplateParameters[request[r].templateId],
                          request[r].parameters.entries) # {}
    \/ /\ CallOk(r, "document-templates.download")
       /\ "generated-documents.upload" \notin CallNames(r)

\* C16: every failed outcome (unauthorized, missing input, template not found,
\* validation error, insert, download, upload or signed URL error) gives a
\* response with the same non-2xx status and the body { error: message },
\* never one with success: true.
C16_FailuresAnswerAlike ==
    \A r \in Invocations :
        (pc[r] = "done" /\ FailedOutcome(r)) =>
            /\ response[r].status = 400
            /\ DOMAIN response[r] = {"status", "error"}

\* one request failed validation and another failed at the signed URL
C16_Witness ==
    \E r1, r2 \in Invocations :
        /\ pc[r1] = "done" /\ pc[r2] = "done"
        /\ response[r1].status = 400
        /\ response[r1].error[1] = "Missing required parameter"
        /\ CallFailed(r2, "generated-documents.createSignedUrl")
        /\ response[r2].status = 400

\* the invocation made the upload call
Uploaded(r) == "generated-documents.upload" \in CallNames(r)

\* C17: under any interleaving of concurrent requests each invocation uploads
\* under its own fresh key {principalId}/{generationRequestId}.{extension}: no
\* two invocations write the same key, and an upload failure ends the request
\* as failed without a result key.
C17_OwnFreshKey ==
    /\ \A r \in Invocations :
          Uploaded(r) =>
              /\ local[r].generatedDoc \in 1..Len(generated_documents)
              /\ generated_documents[local[r].generatedDoc].user_id = request[r].authHeader
              /\ local[r].fileName = << request[r].authHeader, local[r].generatedDoc,
                                        Templates[request[r].templateId].file_type >>
    /\ \A r1, r2 \in Invocations :
          (r1 # r2 /\ Uploaded(r1) /\ Uploaded(r2)) => local[r1].fileName # local[r2].fileName
    /\ \A key \in DOMAIN generatedBucket :
          \E r \in Invocations :
              /\ CallOk(r, "generated-documents.upload")
              /\ local[r].fileName = key
              /\ generatedBucket[key] = local[r].processedContent
    /\ \A r \in Invocations :
          CallFailed(r, "generated-documents.upload") =>
              /\ pc[r] = "done"
              /\ response[r].status = 400
              /\ ~ResultKeySet(r)
              /\ local[r].fileName \notin DOMAIN generatedBucket

\* two requests of one user for one template both uploaded: two objects
C17_Witness ==
    \E r1, r2 \in Invocations :
        /\ r1 # r2
        /\ request[r1].authHeader = request[r2].authHeader
        /\ request[r1].templateId = request[r2].templateId
        /\ CallOk(r1, "generated-documents.upload")
        /\ CallOk(r2, "generated-documents.upload")
        /\ Cardinality(DOMAIN generatedBucket) = 2

\* C18: when the caller disconnects at a suspension point (template fetch,
\* result upload, signed URL request) the pipeline aborts into the failed
\* outcome: after the cancellation no result key is recorded and the request
\* does not end in success.
C18_CancelledAborts ==
    \A r \in Invocations :
        (cancelled[r] /\ pc[r] = "done") =>
            /\ response[r].status = 400
            /\ ~ResultKeySet(r)

----------------------------------------------------------------------------
(* Claims about the template form *)

NoDuplicateNames ==
    \A i, j \in 1..Len(formParameters) :
        i # j => formParameters[i].parameter_name # formParameters[j].parameter_name

NewNameExists ==
    \E i \in 1..Len(formParameters) :
        formParameters[i].parameter_name = newParam.parameter_name

\* C19: parameter names are unique within the template form: after any
\* sequence of addParameter and removeParameter no two entries have the same
\* parameter_name, and adding a name that exists is rejected and leaves the
\* list unchanged.
C19_NamesUnique ==
    /\ []NoDuplicateNames
    /\ [][NewNameExists => Len(formParameters') <= Len(formParameters)]_vars

\* adding a name that is in the list was rejected, after a removal
C19_Witness ==
    /\ formToast = <<"Error", "Parameter name already exists">>
    /\ NewNameExists
    /\ Len(formParameters) = MaxFormParameters - 1

\* C20: every parameter_name that addParameter accepts matches [A-Za-z0-9_]+
\* exactly as stored, with no leading or trailing whitespace.
C20_StoredNamesMatchPattern ==
    \A i \in 1..Len(formParameters) :
        MatchesNamePattern(formParameters[i].parameter_name)

----------------------------------------------------------------------------
(* Claims about the replacement, second part *)

\* the text the handler decoded from the template of the invocation
TemplateText(r) == Decode(TemplateFiles[TemplatePath(local[r].template.file_url)])

IsAscii(bytes) ==
    \A i \in 1..Len(bytes) : bytes[i] \notin {"0xFF", "0xEF", "0xBB", "0xBF", "0xBD", "U+FFFD"}

\* C21: substituting with a non-empty value map none of whose names occurs
\* in the body is a no-op: the output text equals the input text, and for an
\* ASCII template with no placeholders the uploaded bytes equal the template
\* bytes, in every template family.
C21_AbsentNamesNoOp ==
    \A r \in Invocations :
        LET entries == request[r].parameters.entries
            bytes == TemplateFiles[TemplatePath(local[r].template.file_url)]
        IN (local[r].fileName # NoKey /\ entries # <<>>) =>
              /\ (\A k \in 1..Len(entries) : ~Includes(TemplateText(r), entries[k][1])) =>
                    local[r].processedContent = Encode(TemplateText(r))
              /\ (IsAscii(bytes) /\ ~Includes(bytes, Open2)) =>
                    local[r].processedContent = bytes

RECURSIVE TightenFrom(_, _, _)
\* s from index i on, with every placeholder of the name written without
\* whitespace inside the braces
TightenFrom(s, i, name) ==
    IF i > Len(s) THEN <<>>
    ELSE LET b == SkipWhitespace(s, i + 2)
             d == SkipWhitespace(s, b + Len(name))
         IN IF StartsAt(s, i, Open2) /\ StartsAt(s, b, name) /\ StartsAt(s, d, Close2)
            THEN Placeholder(name) \o TightenFrom(s, d + 2, name)
            ELSE <<s[i]>> \o TightenFrom(s, i + 1, name)

RECURSIVE TightenAll(_, _)
\* the body with the placeholders of every key of the entries tightened
TightenAll(s, entries) ==
    IF entries = <<>> THEN s
    ELSE TightenAll(TightenFrom(s, 1, Head(entries)[1]), Tail(entries))

\* C22: whitespace tolerance: {{name}}, {{ name }}, {{  name }} are all
\* replaced, and by the same text: a body gives the same output as the body
\* that differs from it only in the whitespace inside the braces of the
\* placeholders of the mapped names.
C22_WhitespaceTolerant ==
    sPhase = "done" =>
        sContent.text = Substitute(TightenAll(sBody, sEntries), sEntries, sFileType).c.text

\* s[i..e] is a span {{...}} with no closing brace inside that holds the name
IsSpanOf(s, i, e, name) ==
    /\ StartsAt(s, i, Open2)
    /\ e >= i + 3
    /\ StartsAt(s, e - 1, Close2)
    /\ \A j \in (i + 2)..(e - 2) : s[j] # RB
    /\ Includes(SubSeq(s, i + 2, e - 2), name)

\* s[i..e] is the name between braces with nothing but whitespace around it
IsPaddedForm(s, i, e, name) ==
    /\ StartsAt(s, i, Open2)
    /\ StartsAt(s, e - 1, Close2)
    /\ Trim(SubSeq(s, i + 2, e - 2)) = name

RECURSIVE ExpectedFrom(_, _, _, _)
\* s from index i on with every span of the name, taken from the left,
\* replaced by the value
ExpectedFrom(s, i, name, val) ==
    IF i > Len(s) THEN <<>>
    ELSE LET e == FirstClose(s, i + 2) + 1
         IN IF e <= Len(s) /\ IsSpanOf(s, i, e, name)
            THEN val \o ExpectedFrom(s, e + 1, name, val)
            ELSE <<s[i]>> \o ExpectedFrom(s, i + 1, name, val)

\* C23: the split-token heuristic is applied for Word-family templates only:
\* for a Word template every span {{...}} with no closing brace inside whose
\* text contains the parameter name is replaced as a whole by the value; for
\* an Excel template such a span, unless it is the padded form {{ name }}, is
\* left unchanged.  Stated for a map of one name.
C23_SplitHeuristicWordOnly ==
    (sPhase = "done" /\ Len(sEntries) = 1) =>
        LET name == sEntries[1][1]
            val == sEntries[1][2]
        IN IF sFileType \in {"docx", "doc"}
           THEN sContent.text = ExpectedFrom(sBody, 1, name, val)
           ELSE \A i, e \in 1..Len(sBody) :
                   (IsSpanOf(sBody, i, e, name) /\ ~IsPaddedForm(sBody, i, e, name)) =>
                       Intact(sContent, i, e - i + 1)

----------------------------------------------------------------------------
(* Claims about the template form and the stores *)

\* the template record written for a storage object, and its parameter rows
HasTemplateRecord(key) ==
    \E i \in 1..Len(document_templates) : document_templates[i].file_url = key
HasParameterRows(id) ==
    \E row \in template_parameters : row.template_id = id

\* C24: template creation is all-or-nothing: whenever handleSubmit has ended,
\* every storage object has its template record and every template record has
\* its storage object and its parameter rows; a failed insert leaves nothing
\* behind.
C24_AllOrNothing ==
    submitPc = "idle" =>
        /\ \A key \in templatesBucket : HasTemplateRecord(key)
        /\ \A i \in 1..Len(document_templates) :
               /\ document_templates[i].file_url \in templatesBucket
               /\ HasParameterRows(i)

\* the parameter names of a template
ParameterNames(t) == { row.parameter_name : row \in TemplateParameters[t] }

\* C25: once every pending fetchParameters call has returned, in whatever
\* order, the parameters shown are those of the selected template, and a
\* generation request never carries one template's id with values of
\* another template's parameters.
C25_ParametersOfSelectedTemplate ==
    /\ (fetching = {} /\ selectedTemplate # "" /\ dashParameters # <<>>) =>
           dashParameters = OrderByLabel(TemplateParameters[selectedTemplate])
    /\ invoked # NoRequest =>
           \A k \in 1..Len(invoked.parameters.entries) :
               invoked.parameters.entries[k][1] \in ParameterNames(invoked.templateId)

\* policy "Authenticated users can view templates" on document_templates:
\* TO authenticated USING (true)
CanViewTemplate(uid, template) == uid \in Users

\* C26: whoever can read a template's metadata row can download its file:
\* for every invocation that has read the template row, the storage policy
\* of 'document-templates' lets its user read the object the row points to.
C26_ReadableMeansDownloadable ==
    \A r \in Invocations :
        (/\ local[r].template # NoTemplate
         /\ CanViewTemplate(local[r].user, local[r].template)) =>
            CanViewTemplateFile(local[r].user, TemplatePath(local[r].template.file_url))

\* the contentType option of the upload of the generated document
UploadContentType(fileType) ==
    IF fileType = "xlsx" \/ fileType = "xls" THEN XlsxMime ELSE DocxMime

\* C27: the content type the generator uploads a result with is one of the
\* MIME types the bucket 'generated-documents' allows, whatever the file type
\* of the template.
C27_ContentTypeAllowed ==
    \A r \in Invocations :
        Uploaded(r) =>
            UploadContentType(local[r].template.file_type) \in GeneratedBucketMimeTypes

\* CHECK (file_type IN ('excel', 'word')) of table document_templates
TableFileTypes == {"excel", "word"}

\* C28: the file_type values agree in the three places: every file_type that
\* handleSubmit writes is accepted by the CHECK of document_templates, so
\* that the rows the generator classifies carry the values the form wrote.
C28_FileTypesConsistent ==
    /\ submitPc = "insertTemplate" => submitLocal.fileExt \in TableFileTypes
    /\ \A i \in 1..Len(document_templates) :
           document_templates[i].file_type \in TableFileTypes

\* C29: the busy flags are always cleared: a run of handleGenerateDocument
\* that set generating and a run of handleSubmit that set uploading
\* eventually set the flag back to false, whether the remote call succeeds,
\* returns an error or throws.
C29_BusyFlagsCleared ==
    /\ generating ~> ~generating
    /\ uploading ~> ~uploading

\* both flags are clear again after a remote call of each handler failed
C29_Witness ==
    /\ ~generating
    /\ dashToast = <<"error", "", "Failed to generate document">>
    /\ ~uploading
    /\ formToast = <<"Error", "throws">>
    /\ templatesBucket # {}

====
